---- MODULE Spec2Model ----
(***************************************************************************)
(* Model of examples/python_client.py: the request-id counter and          *)
(* send_message, the handle_message dispatch, and the linear workflow of   *)
(* main() over one websocket connection.                                   *)
(***************************************************************************)
EXTENDS Integers, Sequences, FiniteSets, TLC

VARIABLES
    message_id,   \* the module-level counter (line 18)
    pc,           \* main()'s position: the await point it is suspended at
    task_id,      \* main()'s local task_id (lines 82 and 103)
    sent,         \* frames handed to websocket.send, in order
    returned,     \* values returned by the send_message calls, in order
    recvAtSend,   \* for each send, how many frames had been received before it
    delivered,    \* frames the server has put on the connection, in order
    nrecv,        \* how many of them websocket.recv has returned
    open,         \* the connection is open
    shown,        \* what the last handle_message call printed
    exc,          \* the exception that ended main(), "none" while it runs
    requested,    \* for each send, the counter value and the arguments of the call
    co            \* send_message coroutines running side by side, each one's position

vars == <<message_id, pc, task_id, sent, returned, recvAtSend, requested,
          delivered, nrecv, open, shown, exc, co>>

\* ------------------------------------------------------------------ bounds

\* Frames the server sends in one run (main reads at most four).
MaxFrames == 4
\* send_message calls of a caller other than main (ApiSpec).
MaxCalls == 4

\* ------------------------------------------------------------ Python values

PyNone == [py |-> "None"]
PyUnbound == [py |-> "unbound"]
PyStr(s) == [py |-> "str", v |-> s]
PyBool(b) == [py |-> "bool", v |-> b]
PyList(l) == [py |-> "list", v |-> l]
PyDict(d) == [py |-> "dict", v |-> d]
EmptyDict == PyDict(<<>>)

\* A truth test that only asks whether the value is None.
TruthyUnlessNone(x) == x.py # "None"

\* Python's truth test, as `if task_id:` applies it.
Truthy(x) ==
    CASE x.py = "None" -> FALSE
      [] x.py = "str" -> x.v # ""
      [] x.py = "bool" -> x.v
      [] x.py = "list" -> Len(x.v) > 0
      [] x.py = "dict" -> DOMAIN x.v # {}

\* dict.get(key, default) on the mapping d.
Get(d, key, default) == IF key \in DOMAIN d THEN d[key] ELSE default

\* dict.update(other): other's keys win.
Update(d, other) ==
    [k \in DOMAIN d \cup DOMAIN other |->
        IF k \in DOMAIN other THEN other[k] ELSE d[k]]

\* str(n) for n >= 0: the decimal digits, most significant first.
DigitChar == <<"0", "1", "2", "3", "4", "5", "6", "7", "8", "9">>
RECURSIVE str(_)
str(n) == IF n < 10 THEN DigitChar[n + 1]
          ELSE str(n \div 10) \o DigitChar[(n % 10) + 1]

\* json.dumps of a value: a text frame; json.loads undoes it, and raises on a
\* frame that is not JSON text.
json_dumps(value) == [wire |-> "json", value |-> value]
NotJson == [wire |-> "garbage"]
IsJson(frame) == frame.wire = "json"
json_loads(frame) == frame.value

\* ------------------------------------------------------------ send_message

\* The envelope without the run_tool arm: every kind copies the caller's fields.
EnvelopeCopyingFields(n, message_type, params) ==
    Update([id |-> PyStr(str(n)), type |-> PyStr(message_type)], params)

\* Lines 24-34: the envelope send_message builds from the counter value n.
Envelope(n, message_type, params) ==
    LET message == [id |-> PyStr(str(n)), type |-> PyStr(message_type)]
    IN  IF message_type = "run_tool"
        THEN Update(message,
                    [tool |-> Get(params, "tool", PyNone),
                     params |-> Get(params, "params", EmptyDict)])
        ELSE Update(message, params)

\* Line 28: the counter after one call.
NextId(n) == n + 1

\* send_message as a step: the counter moves on before the await of line 36;
\* on an open connection the frame is transmitted and message["id"] returned,
\* on a closed one websocket.send raises ConnectionClosed.
send_message(message_type, params) ==
    LET message == Envelope(message_id, message_type, params)
    IN  /\ open
        /\ message_id' = NextId(message_id)
        /\ sent' = Append(sent, json_dumps(PyDict(message)))
        /\ returned' = Append(returned, message["id"])
        /\ recvAtSend' = Append(recvAtSend, nrecv)
        /\ requested' = Append(requested,
                               [n |-> message_id, message_type |-> message_type,
                                params |-> params])

\* A failing call that takes its identifier only once the frame has gone out.
send_message_raises_keeping_id ==
    /\ ~open
    /\ UNCHANGED <<message_id, sent, returned, recvAtSend, requested>>

send_message_raises ==
    /\ ~open
    /\ message_id' = NextId(message_id)
    /\ UNCHANGED <<sent, returned, recvAtSend, requested>>

\* ---------------------------------------------------------- handle_message

\* The chain with its `elif message_type == "error"` arm left out.
ClassifyWithoutError(message_type) ==
    IF message_type = PyStr("server_info") THEN "server_info"
    ELSE IF message_type = PyStr("tools_list") THEN "tools_list"
    ELSE IF message_type = PyStr("request_received") THEN "request_received"
    ELSE IF message_type = PyStr("tool_response") THEN "tool_response"
    ELSE "unknown"

\* Lines 48-69: the branch of the if/elif chain that message_type selects.
Classify(message_type) ==
    IF message_type = PyStr("server_info") THEN "server_info"
    ELSE IF message_type = PyStr("tools_list") THEN "tools_list"
    ELSE IF message_type = PyStr("request_received") THEN "request_received"
    ELSE IF message_type = PyStr("tool_response") THEN "tool_response"
    ELSE IF message_type = PyStr("error") THEN "error"
    ELSE "unknown"

\* Line 55: tool['name'] and tool['description'] of every listed tool.
ToolsPrintable(tools) ==
    \A i \in 1..Len(tools.v) :
        /\ tools.v[i].py = "dict"
        /\ {"name", "description"} \subseteq DOMAIN tools.v[i].v

\* Lines 43-69 on a decoded value: the exception it raises ("none" when it
\* returns) and what it has printed; `before` is what the console showed.
handle_message(message, before) ==
    IF message.py # "dict"
    THEN [raises |-> "AttributeError", shown |-> before]
    ELSE
      LET m == message.v
          message_type == Get(m, "type", PyNone)
          header == <<message_type, Get(m, "id", PyNone)>>
          branch == Classify(message_type)
          tools == Get(m, "tools", PyList(<<>>))
      IN  CASE branch = "server_info" ->
                [raises |-> "none",
                 shown |-> [header |-> header, branch |-> branch,
                            args |-> <<Get(m, "server", PyNone),
                                       Get(m, "version", PyNone),
                                       Get(m, "protocol", PyNone)>>]]
            [] branch = "tools_list" ->
                IF tools.py # "list"
                THEN [raises |-> "TypeError",
                      shown |-> [header |-> header, branch |-> branch,
                                 args |-> <<>>]]
                ELSE IF ~ToolsPrintable(tools)
                THEN [raises |-> "KeyError",
                      shown |-> [header |-> header, branch |-> branch,
                                 args |-> <<>>]]
                ELSE [raises |-> "none",
                      shown |-> [header |-> header, branch |-> branch,
                                 args |-> <<tools>>]]
            [] branch = "request_received" ->
                [raises |-> "none",
                 shown |-> [header |-> header, branch |-> branch,
                            args |-> <<Get(m, "tool", PyNone)>>]]
            [] branch = "tool_response" ->
                [raises |-> "none",
                 shown |-> [header |-> header, branch |-> branch,
                            args |-> <<Get(m, "tool", PyNone),
                                       json_dumps(Get(m, "result", PyNone))>>]]
            [] branch = "error" ->
                [raises |-> "none",
                 shown |-> [header |-> header, branch |-> branch,
                            args |-> <<Get(m, "message", PyNone)>>]]
            [] OTHER ->
                [raises |-> "none",
                 shown |-> [header |-> header, branch |-> branch,
                            args |-> <<message_type, json_dumps(message)>>]]

\* Lines 94-95 (also 98-100, 119-120, 123-124) on one received frame:
\* json.loads, then handle_message.
ReceiveAndHandle(frame, before) ==
    IF ~IsJson(frame)
    THEN [raises |-> "JSONDecodeError", shown |-> before]
    ELSE handle_message(json_loads(frame), before)

\* Line 103: message.get("result", {}).get("taskId") on the decoded message.
ExtractTaskId(message) ==
    LET result == Get(message.v, "result", EmptyDict)
    IN  IF result.py # "dict"
        THEN [raises |-> "AttributeError", task_id |-> PyNone]
        ELSE [raises |-> "none", task_id |-> Get(result.v, "taskId", PyNone)]

\* ----------------------------------------------------------------- server

\* What the server may put on the connection: the documented response kinds,
\* kinds the client does not know, and frames it cannot decode or process.
ToolResponse(tool, result) ==
    json_dumps(PyDict([type |-> PyStr("tool_response"), tool |-> PyStr(tool),
                       result |-> result]))
ServerInfoFrame ==
    json_dumps(PyDict([type |-> PyStr("server_info"),
                       server |-> PyStr("airtap"), version |-> PyStr("1.0"),
                       protocol |-> PyStr("mcp")]))
ToolsListFrame ==
    json_dumps(PyDict([type |-> PyStr("tools_list"),
                       tools |-> PyList(<<PyDict(
                           [name |-> PyStr("submit_task"),
                            description |-> PyStr("Submit a task")])>>)]))
RequestReceivedFrame ==
    json_dumps(PyDict([type |-> PyStr("request_received"),
                       tool |-> PyStr("submit_task")]))
SubmitResponseFrame ==
    ToolResponse("submit_task", PyDict([taskId |-> PyStr("abc123")]))
NoTaskIdResponseFrame == ToolResponse("submit_task", EmptyDict)
EmptyTaskIdResponseFrame ==
    ToolResponse("submit_task", PyDict([taskId |-> PyStr("")]))
StatusResponseFrame ==
    ToolResponse("get_task_status", PyDict([status |-> PyStr("completed")]))
ErrorFrame ==
    json_dumps(PyDict([type |-> PyStr("error"), message |-> PyStr("boom")]))
UnknownKindFrame ==
    json_dumps(PyDict([type |-> PyStr("ping"),
                       result |-> PyDict([taskId |-> PyStr("T1")])]))
NoTypeFrame == json_dumps(PyDict([id |-> PyStr("1")]))
ArrayFrame == json_dumps(PyList(<<>>))

\* The replies the protocol documents, and a frame that is not JSON.
ReplyFrames == <<
    ServerInfoFrame, ToolsListFrame, RequestReceivedFrame, SubmitResponseFrame,
    NoTaskIdResponseFrame, StatusResponseFrame, ErrorFrame, NotJson >>

\* Those, and frames no documented server sends.
ServerFrames ==
    ReplyFrames \o
    << EmptyTaskIdResponseFrame, UnknownKindFrame, NoTypeFrame, ArrayFrame >>

\* The server sends one more frame, one of `frames`.
DeliverFrom(frames) ==
    /\ pc \notin {"connect", "exited"}
    /\ open
    /\ Len(delivered) < MaxFrames
    /\ \E i \in 1..Len(frames) : delivered' = Append(delivered, frames[i])
    /\ UNCHANGED <<message_id, pc, task_id, sent, returned, recvAtSend, requested, nrecv,
                   open, shown, exc, co>>

Deliver == DeliverFrom(ServerFrames)

\* The server sends one more of the documented replies.
DeliverReply == DeliverFrom(ReplyFrames)

\* The server closes the connection.
ServerClose ==
    /\ pc \notin {"connect", "exited"}
    /\ open
    /\ open' = FALSE
    /\ UNCHANGED <<message_id, pc, task_id, sent, returned, recvAtSend, requested,
                   delivered, co, nrecv, shown, exc>>

\* ------------------------------------------------------------------- main

\* Lines 131-138: an exception leaves the `async with` block, which closes the
\* connection, and main() returns.
Exit(exception) ==
    /\ pc' = "exited"
    /\ exc' = exception
    /\ open' = FALSE

\* Lines 86-90: the parameters of the example task.
SubmitParams ==
    PyDict([task |-> PyStr("Open the calculator app, calculate 25 + 37, and verify the result is 62"),
            precisionMode |-> PyBool(TRUE),
            navigateToHome |-> PyBool(TRUE)])

\* Line 74: the connection is established.
Connect ==
    /\ pc = "connect"
    /\ pc' = "send_list_tools"
    /\ open' = TRUE
    /\ UNCHANGED <<message_id, task_id, sent, returned, recvAtSend, requested, delivered, co,
                   nrecv, shown, exc>>

\* Line 74: websockets.connect raises.
ConnectRefused ==
    /\ pc = "connect"
    /\ Exit("OSError")
    /\ UNCHANGED <<message_id, task_id, sent, returned, recvAtSend, requested, delivered, co,
                   nrecv, shown>>

\* Line 78: send_message(websocket, "list_tools").
SendListTools ==
    /\ pc = "send_list_tools"
    /\ \/ /\ send_message("list_tools", <<>>)
          /\ pc' = "send_submit_task"
          /\ UNCHANGED <<open, exc>>
       \/ /\ send_message_raises
          /\ Exit("ConnectionClosed")
    /\ UNCHANGED <<task_id, delivered, co, nrecv, shown>>

\* Lines 82-91: task_id = send_message(websocket, "run_tool", tool="submit_task",
\* params={...}).
SendSubmitTask ==
    /\ pc = "send_submit_task"
    /\ \/ /\ send_message("run_tool",
                    [tool |-> PyStr("submit_task"), params |-> SubmitParams])
          /\ pc' = "recv1"
          /\ task_id' = returned'[Len(returned')]
          /\ UNCHANGED <<open, exc>>
       \/ /\ send_message_raises
          /\ Exit("ConnectionClosed")
          /\ UNCHANGED task_id
    /\ UNCHANGED <<delivered, co, nrecv, shown>>

\* websocket.recv() with nothing buffered on a closed connection.
RecvRaises ==
    /\ nrecv = Len(delivered)
    /\ ~open
    /\ Exit("ConnectionClosed")
    /\ UNCHANGED <<message_id, task_id, sent, returned, recvAtSend, requested, delivered, co,
                   nrecv, shown>>

\* The same with handle_message's message_id (line 44) declared global: the
\* id of the envelope, when it has one, becomes the counter.
RecvAndHandleAssigningGlobal(next) ==
    /\ nrecv < Len(delivered)
    /\ nrecv' = nrecv + 1
    /\ LET frame == delivered[nrecv + 1]
           out == ReceiveAndHandle(frame, shown)
       IN  /\ shown' = out.shown
           /\ message_id' = IF IsJson(frame) /\ json_loads(frame).py = "dict"
                                /\ "id" \in DOMAIN json_loads(frame).v
                             THEN 1 ELSE message_id
           /\ IF out.raises = "none"
              THEN /\ pc' = next
                   /\ UNCHANGED <<open, exc>>
              ELSE Exit(out.raises)
    /\ UNCHANGED <<task_id, sent, returned, recvAtSend, requested, delivered, co>>

\* Lines 94-95, 119-120 and 123-124: receive one frame, decode and handle it,
\* and go on to `next`.
\* (handle_message's own message_id, line 44, is a local of that function: the
\* module-level counter is not touched.)
RecvAndHandle(next) ==
    /\ nrecv < Len(delivered)
    /\ nrecv' = nrecv + 1
    /\ LET out == ReceiveAndHandle(delivered[nrecv + 1], shown)
       IN  /\ shown' = out.shown
           /\ IF out.raises = "none"
              THEN /\ pc' = next
                   /\ UNCHANGED <<open, exc>>
              ELSE Exit(out.raises)
    /\ UNCHANGED <<message_id, task_id, sent, returned, recvAtSend, requested, delivered, co>>

\* The first receive with a timeout: it gives up on an empty buffer and main
\* goes on to the second receive.
Recv1TimesOut ==
    /\ pc = "recv1"
    /\ \/ RecvAndHandle("recv2")
       \/ RecvRaises
       \/ /\ nrecv = Len(delivered)
          /\ open
          /\ pc' = "recv2"
          /\ UNCHANGED <<message_id, task_id, sent, returned, recvAtSend,
                         requested, delivered, co, nrecv, open, shown, exc>>

\* Lines 93-95: the first receive.
Recv1 ==
    /\ pc = "recv1"
    /\ \/ RecvAndHandle("recv2")
       \/ RecvRaises

\* Lines 98-105: receive the second frame, handle it, take result.taskId from
\* it and branch on its truth value.
Recv2 ==
    /\ pc = "recv2"
    /\ \/ /\ nrecv < Len(delivered)
          /\ nrecv' = nrecv + 1
          /\ LET frame == delivered[nrecv + 1]
                 out == ReceiveAndHandle(frame, shown)
                 got == ExtractTaskId(json_loads(frame))
             IN  /\ shown' = out.shown
                 /\ IF out.raises # "none"
                    THEN Exit(out.raises) /\ UNCHANGED task_id
                    ELSE IF got.raises # "none"
                    THEN Exit(got.raises) /\ UNCHANGED task_id
                    ELSE /\ task_id' = got.task_id
                         /\ pc' = IF Truthy(got.task_id) THEN "sleep" ELSE "idle"
                         /\ UNCHANGED <<open, exc>>
          /\ UNCHANGED <<message_id, sent, returned, recvAtSend, requested, delivered, co>>
       \/ RecvRaises

\* Lines 108-116: after the five-second sleep,
\* send_message(websocket, "run_tool", tool="get_task_status",
\* params={"taskId": task_id}).
SendGetTaskStatus ==
    /\ pc = "sleep"
    /\ \/ /\ send_message("run_tool",
                    [tool |-> PyStr("get_task_status"),
                     params |-> PyDict([taskId |-> task_id])])
          /\ pc' = "recv3"
          /\ UNCHANGED <<open, exc>>
       \/ /\ send_message_raises
          /\ Exit("ConnectionClosed")
    /\ UNCHANGED <<task_id, delivered, co, nrecv, shown>>

Recv3 ==
    /\ pc = "recv3"
    /\ \/ RecvAndHandle("recv4")
       \/ RecvRaises

\* The flow as a polling loop: after the reply, sleep and ask again.
Recv4PollsAgain ==
    /\ pc = "recv4"
    /\ \/ RecvAndHandle("sleep")
       \/ RecvRaises

Recv4 ==
    /\ pc = "recv4"
    /\ \/ RecvAndHandle("idle")
       \/ RecvRaises

\* The flow with no loop at its end: main() returns.
IdleLoopReturns ==
    /\ pc = "idle"
    /\ Exit("none")
    /\ UNCHANGED <<message_id, task_id, sent, returned, recvAtSend, requested, delivered, co,
                   nrecv, shown>>

\* Lines 128-129: one turn of the idle loop.
IdleLoop ==
    /\ pc = "idle"
    /\ UNCHANGED vars

\* Line 134: the user interrupts the run.
Interrupt ==
    /\ pc # "exited"
    /\ Exit("KeyboardInterrupt")
    /\ UNCHANGED <<message_id, task_id, sent, returned, recvAtSend, requested, delivered, co,
                   nrecv, shown>>

Init ==
    /\ message_id = 1
    /\ pc = "connect"
    /\ task_id = PyUnbound
    /\ sent = <<>>
    /\ returned = <<>>
    /\ recvAtSend = <<>>
    /\ requested = <<>>
    /\ co = <<>>
    /\ delivered = <<>>
    /\ nrecv = 0
    /\ open = FALSE
    /\ shown = [header |-> <<>>, branch |-> "none", args |-> <<>>]
    /\ exc = "none"

Next ==
    \/ Connect
    \/ ConnectRefused
    \/ SendListTools
    \/ SendSubmitTask
    \/ Recv1
    \/ Recv2
    \/ SendGetTaskStatus
    \/ Recv3
    \/ Recv4
    \/ IdleLoop
    \/ Interrupt
    \/ Deliver
    \/ ServerClose

Spec == Init /\ [][Next]_vars

\* ------------------------------------------------- send_message, any caller

\* A caller other than main: it holds an open connection and calls
\* send_message with kinds and keyword fields of its own choosing.
CallKinds == <<"list_tools", "run_tool">>
CallFields == <<
    <<>>,
    [tool |-> PyStr("submit_task"), params |-> SubmitParams],
    [tool |-> PyStr("get_task_status")],
    [cursor |-> PyStr("p2")],
    [id |-> PyStr("1")],
    [type |-> PyStr("run_tool")] >>

ApiSend ==
    /\ pc = "api"
    /\ message_id <= MaxCalls
    /\ \E k \in 1..Len(CallKinds), f \in 1..Len(CallFields) :
           \/ send_message(CallKinds[k], CallFields[f])
           \/ send_message_raises
    /\ UNCHANGED <<pc, task_id, delivered, co, nrecv, open, shown, exc>>

\* The peer closes the caller's connection.
ApiClose ==
    /\ pc = "api"
    /\ open
    /\ open' = FALSE
    /\ UNCHANGED <<message_id, pc, task_id, sent, returned, recvAtSend, requested,
                   delivered, co, nrecv, shown, exc>>

ApiInit ==
    /\ message_id = 1
    /\ pc = "api"
    /\ task_id = PyUnbound
    /\ sent = <<>>
    /\ returned = <<>>
    /\ recvAtSend = <<>>
    /\ requested = <<>>
    /\ co = <<>>
    /\ delivered = <<>>
    /\ nrecv = 0
    /\ open = TRUE
    /\ shown = [header |-> <<>>, branch |-> "none", args |-> <<>>]
    /\ exc = "none"

ApiNext ==
    \/ ApiSend
    \/ ApiClose

ApiSpec == ApiInit /\ [][ApiNext]_vars

\* ------------------------------------- send_message, interleaved coroutines

\* Coroutines calling send_message side by side on one event loop and one
\* open connection.  A coroutine runs without interruption up to an await and
\* is suspended there; the only await of send_message is at line 36.
MaxSenders == 2

\* Lines 22-34, up to the await of line 36: the envelope is built from the
\* counter as it stands and the counter is incremented, in one step.
send_message_begin(c, message_type, params) ==
    /\ co[c].at = "ready"
    /\ message_id' = NextId(message_id)
    /\ co' = [co EXCEPT ![c] = [at |-> "send", n |-> message_id,
                                message_type |-> message_type,
                                params |-> params,
                                message |-> Envelope(message_id, message_type,
                                                     params)]]
    /\ UNCHANGED <<sent, returned, recvAtSend, requested>>

\* Lines 36-39: the suspended send goes through and the call returns
\* message["id"], or the connection is closed and the send raises.
send_message_resume(c) ==
    /\ co[c].at = "send"
    /\ IF open
       THEN /\ sent' = Append(sent, json_dumps(PyDict(co[c].message)))
            /\ returned' = Append(returned, co[c].message["id"])
            /\ recvAtSend' = Append(recvAtSend, nrecv)
            /\ requested' = Append(requested,
                                   [n |-> co[c].n,
                                    message_type |-> co[c].message_type,
                                    params |-> co[c].params])
            /\ co' = [co EXCEPT ![c] = [at |-> "returned"]]
       ELSE /\ co' = [co EXCEPT ![c] = [at |-> "raised"]]
            /\ UNCHANGED <<sent, returned, recvAtSend, requested>>
    /\ UNCHANGED message_id

ConcBegin ==
    /\ pc = "conc"
    /\ \E c \in 1..MaxSenders, k \in 1..Len(CallKinds), f \in 1..Len(CallFields) :
           send_message_begin(c, CallKinds[k], CallFields[f])
    /\ UNCHANGED <<pc, task_id, delivered, nrecv, open, shown, exc>>

ConcResume ==
    /\ pc = "conc"
    /\ \E c \in 1..MaxSenders : send_message_resume(c)
    /\ UNCHANGED <<pc, task_id, delivered, nrecv, open, shown, exc>>

\* The peer closes the connection the coroutines share.
ConcClose ==
    /\ pc = "conc"
    /\ open
    /\ open' = FALSE
    /\ UNCHANGED <<message_id, pc, task_id, sent, returned, recvAtSend, requested,
                   delivered, co, nrecv, shown, exc>>

ConcInit ==
    /\ message_id = 1
    /\ pc = "conc"
    /\ task_id = PyUnbound
    /\ sent = <<>>
    /\ returned = <<>>
    /\ recvAtSend = <<>>
    /\ requested = <<>>
    /\ co = [c \in 1..MaxSenders |-> [at |-> "ready"]]
    /\ delivered = <<>>
    /\ nrecv = 0
    /\ open = TRUE
    /\ shown = [header |-> <<>>, branch |-> "none", args |-> <<>>]
    /\ exc = "none"

ConcNext ==
    \/ ConcBegin
    \/ ConcResume
    \/ ConcClose

ConcSpec == ConcInit /\ [][ConcNext]_vars

\* ------------------------------------------------------------ observations

\* The i-th request main or a caller has transmitted, as the mapping sent.
Request(i) == json_loads(sent[i]).v

IsRunTool(i, tool) ==
    /\ Request(i)["type"] = PyStr("run_tool")
    /\ "tool" \in DOMAIN Request(i)
    /\ Request(i)["tool"] = PyStr(tool)

IsDictFrame(frame) == IsJson(frame) /\ json_loads(frame).py = "dict"

FrameHasType(frame, kind) ==
    /\ IsDictFrame(frame)
    /\ Get(json_loads(frame).v, "type", PyNone) = PyStr(kind)

IsToolResponse(frame, tool) ==
    /\ FrameHasType(frame, "tool_response")
    /\ Get(json_loads(frame).v, "tool", PyNone) = PyStr(tool)

\* result.taskId of a frame, PyNone when it has none.
FrameTaskId(frame) ==
    IF ~IsDictFrame(frame) THEN PyNone
    ELSE LET result == Get(json_loads(frame).v, "result", EmptyDict)
         IN  IF result.py # "dict" THEN PyNone
             ELSE Get(result.v, "taskId", PyNone)

\* The frames main has received so far.
Received == SubSeq(delivered, 1, nrecv)

\* ------------------------------------------------------------------ claims

\* C1: the identifiers send_message returns are "1", "2", "3", ... in call
\* order, whatever kinds and keyword fields the caller passes.
C1_ReturnedIdsCountUp ==
    \A i \in 1..Len(returned) : returned[i] = PyStr(str(i))

\* The i-th request is run_tool/get_task_status carrying params.taskId = t.
IsStatusCheckFor(i, t) ==
    /\ IsRunTool(i, "get_task_status")
    /\ Request(i)["params"] = PyDict([taskId |-> t])

\* C2: when the server delivers tools_list, request_received and the
\* submit_task tool_response with taskId "abc123", in this order, a run that
\* has got past its receives has sent list_tools as "1", run_tool/submit_task as
\* "2" and run_tool/get_task_status as "3" with params.taskId = "abc123".
C2_EndToEnd ==
    ( /\ Len(delivered) >= 3
      /\ SubSeq(delivered, 1, 3) =
            <<ToolsListFrame, RequestReceivedFrame, SubmitResponseFrame>>
      /\ pc = "idle" )
    => /\ Len(sent) = 3
       /\ Request(1)["type"] = PyStr("list_tools")
       /\ Request(1)["id"] = PyStr("1")
       /\ IsRunTool(2, "submit_task")
       /\ Request(2)["id"] = PyStr("2")
       /\ IsStatusCheckFor(3, PyStr("abc123"))
       /\ Request(3)["id"] = PyStr("3")

\* C3: receiving a submit_task tool_response that carries a task id T while
\* the submit_task request is outstanding moves the workflow to TaskSubmitted
\* with T as the task id of the status check to come.
C3_TaskIdFromSubmitResponse ==
    [][ ( /\ pc \in {"recv1", "recv2"}
          /\ nrecv' = nrecv + 1
          /\ IsToolResponse(delivered[nrecv + 1], "submit_task")
          /\ Truthy(FrameTaskId(delivered[nrecv + 1])) )
        => ( /\ pc' = "sleep"
             /\ task_id' = FrameTaskId(delivered[nrecv + 1]) ) ]_vars

\* A submit_task tool_response without a taskId is among the frames received.
NoTaskIdReceived ==
    \E i \in 1..nrecv :
        /\ IsToolResponse(delivered[i], "submit_task")
        /\ FrameTaskId(delivered[i]) = PyNone

\* C4: once a submit_task tool_response without a taskId has been received,
\* no further request is sent.
C4_NoRequestAfterNoTaskId ==
    [][ NoTaskIdReceived => sent' = sent ]_vars

\* An error response is among the frames received.
ErrorReceived ==
    \E i \in 1..nrecv : FrameHasType(delivered[i], "error")

\* C5: once an error response has been received, no further request is sent.
C5_NoRequestAfterError ==
    [][ ErrorReceived => sent' = sent ]_vars

\* C6: between two consecutive sends at least one frame is received.
C6_OneRequestAtATime ==
    \A i \in 2..Len(sent) : recvAtSend[i] > recvAtSend[i - 1]

\* C7: a get_task_status request comes after a submit_task request and
\* carries a non-empty taskId that an earlier received frame supplied.
C7_StatusCheckNeedsSubmitAndTaskId ==
    \A i \in 1..Len(sent) :
        IsRunTool(i, "get_task_status") =>
            /\ \E j \in 1..(i - 1) : IsRunTool(j, "submit_task")
            /\ \E t \in {FrameTaskId(delivered[k]) : k \in 1..recvAtSend[i]} :
                   /\ t.py = "str"
                   /\ t.v # ""
                   /\ IsStatusCheckFor(i, t)

C7_Witness ==
    /\ Len(sent) = 3
    /\ IsRunTool(3, "get_task_status")

\* The kinds handle_message names, and the branch each type value selects.
KnownKinds ==
    {"server_info", "tools_list", "request_received", "tool_response", "error"}
ExpectedBranch(message_type) ==
    IF message_type.py = "str" /\ message_type.v \in KnownKinds
    THEN message_type.v
    ELSE "unknown"

\* The last received frame is a mapping whose type no branch names (or that
\* has no type), otherwise unremarkable.
LastFrameUnrecognized ==
    /\ nrecv >= 1
    /\ IsDictFrame(delivered[nrecv])
    /\ ExpectedBranch(Get(json_loads(delivered[nrecv]).v, "type", PyNone)) = "unknown"

\* C8: handle_message takes, for every type value, the one branch that names
\* it, and the unknown branch for any other; a frame of unrecognized type
\* raises nothing.
C8_ClassificationTotal ==
    /\ ( nrecv >= 1 /\ IsDictFrame(delivered[nrecv]) ) =>
           /\ shown.branch \in KnownKinds \cup {"unknown"}
           /\ shown.branch =
                 ExpectedBranch(Get(json_loads(delivered[nrecv]).v, "type", PyNone))
    /\ LastFrameUnrecognized =>
           exc \in {"none", "KeyboardInterrupt", "ConnectionClosed"}

C8_Witness ==
    /\ LastFrameUnrecognized
    /\ Get(json_loads(delivered[nrecv]).v, "type", PyNone) = PyStr("ping")
    /\ shown.branch = "unknown"
    /\ pc = "recv2"

\* C9: a received frame that cannot be decoded is discarded: main stays where
\* it is, waiting for the next frame, and no exception ends the run.
C9_DecodeFailureDiscarded ==
    [][ ( nrecv' = nrecv + 1 /\ ~IsJson(delivered[nrecv + 1]) )
        => ( pc' = pc /\ exc' = "none" ) ]_vars

\* The steps of main() itself: the event loop resumes a coroutine whose await
\* has completed, so each is taken once it stays possible.
MainStep ==
    \/ Connect
    \/ ConnectRefused
    \/ SendListTools
    \/ SendSubmitTask
    \/ Recv1
    \/ Recv2
    \/ SendGetTaskStatus
    \/ Recv3
    \/ Recv4

FairNext ==
    \/ MainStep
    \/ IdleLoop
    \/ Interrupt
    \/ DeliverReply
    \/ ServerClose

\* A run against a server that sends documented replies, each expected reply
\* delivered fairly and main() scheduled fairly.
FairSpec ==
    Init /\ [][FairNext]_vars /\ WF_vars(MainStep) /\ WF_vars(DeliverReply)

\* C10 as stated: the run ends.
C10_RunEnds == <>(pc = "exited")

\* C10: under fair delivery main() gets past its last receive or leaves on an
\* exception; once in the idle loop it stays there until the user interrupts.
C10_ReachesIdleLoopAndStays ==
    /\ <>(pc \in {"idle", "exited"})
    /\ [][ pc = "idle" =>
              \/ pc' = "idle"
              \/ pc' = "exited" /\ exc' = "KeyboardInterrupt" ]_vars

C10_Witness ==
    /\ pc = "idle"
    /\ nrecv = 4
    /\ Len(sent) = 3

\* C11: every transmitted envelope carries the identifier allocated for its
\* call as id and the requested kind as type, whatever fields the caller
\* passes, and no transmitted id occurs twice.
C11_EnvelopeKeepsIdAndType ==
    /\ \A i \in 1..Len(sent) :
           /\ Request(i)["id"] = PyStr(str(requested[i].n))
           /\ Request(i)["type"] = PyStr(requested[i].message_type)
    /\ \A i, j \in 1..Len(sent) :
           i # j => Request(i)["id"] # Request(j)["id"]

\* C12: a received frame that is not a submit_task tool_response never moves
\* the workflow to TaskSubmitted (the sleep before get_task_status), whatever
\* result.taskId it carries.
C12_TaskIdOnlyFromSubmitResponse ==
    [][ ( /\ nrecv' = nrecv + 1
          /\ ~IsToolResponse(delivered[nrecv + 1], "submit_task") )
        => pc' # "sleep" ]_vars

\* main()'s positions just before a send_message call.
SendPoints == {"send_list_tools", "send_submit_task", "sleep"}

\* C13: a step transmits at most one frame, and only on an open connection,
\* consuming one identifier; a send on a closed connection transmits nothing,
\* consumes its identifier and ends the run with ConnectionClosed; after the
\* run has ended nothing is sent, and the identifier of the failed call is
\* none of those returned.
C13_OneTransmissionNoRetry ==
    /\ [][ /\ sent' # sent =>
                 /\ open
                 /\ Len(sent') = Len(sent) + 1
                 /\ SubSeq(sent', 1, Len(sent)) = sent
                 /\ message_id' = message_id + 1
           /\ ( pc \in SendPoints /\ ~open /\ exc' # "KeyboardInterrupt" ) =>
                 /\ pc' = "exited"
                 /\ exc' = "ConnectionClosed"
                 /\ sent' = sent
                 /\ message_id' = message_id + 1
           /\ pc = "exited" => ( sent' = sent /\ message_id' = message_id )
         ]_vars
    /\ []( message_id > Len(returned) + 1 =>
              /\ pc = "exited"
              /\ \A i \in 1..Len(returned) :
                     returned[i] # PyStr(str(message_id - 1)) )

C13_Witness ==
    /\ exc = "ConnectionClosed"
    /\ message_id = Len(sent) + 2
    /\ Len(sent) = 2

\* C14: a run sends at most three requests, list_tools, then
\* run_tool/submit_task, then run_tool/get_task_status, so at most one status
\* check, whatever the server replies.
C14_OneStatusCheck ==
    /\ Len(sent) <= 3
    /\ Len(sent) >= 1 => Request(1)["type"] = PyStr("list_tools")
    /\ Len(sent) >= 2 => IsRunTool(2, "submit_task")
    /\ Len(sent) >= 3 => IsRunTool(3, "get_task_status")
    /\ Cardinality({i \in 1..Len(sent) : IsRunTool(i, "get_task_status")}) <= 1

C14_Witness ==
    /\ pc = "idle"
    /\ nrecv = 4
    /\ Len(sent) = 3
    /\ IsRunTool(3, "get_task_status")
    /\ IsToolResponse(delivered[4], "get_task_status")

C16_MissingTypeRejected ==
    [][ ( /\ nrecv' = nrecv + 1
          /\ IsDictFrame(delivered[nrecv + 1])
          /\ "type" \notin DOMAIN json_loads(delivered[nrecv + 1]).v )
        => shown' = shown ]_vars

\* C17: receiving and handling an envelope, with or without an id field,
\* leaves the counter alone and sends nothing, so the identifiers returned
\* are the ones the calls would get had no envelope been handled.
C17_HandleLeavesCounter ==
    /\ [][ nrecv' = nrecv + 1 =>
              /\ message_id' = message_id
              /\ sent' = sent
              /\ returned' = returned ]_vars
    /\ [](\A i \in 1..Len(returned) : returned[i] = PyStr(str(i)))

C17_Witness ==
    /\ nrecv >= 2
    /\ delivered[1] = NoTypeFrame
    /\ shown.branch = "tool_response"
    /\ Len(returned) = 3
    /\ returned[3] = PyStr("3")

\* C18: of the send_message coroutines interleaved on one event loop, no two
\* obtain the same identifier and no two transmit the same identifier.
C18_NoSharedIdentifier ==
    \A i, j \in 1..Len(sent) :
        i # j => /\ returned[i] # returned[j]
                 /\ Request(i)["id"] # Request(j)["id"]

RecvPoints == {"recv1", "recv2", "recv3", "recv4"}

\* C19 as stated: with both requests sent and fewer than two envelopes
\* delivered, main is suspended in one of its first two receives for as long
\* as the user does not interrupt it and no envelope makes its handling fail.
C19_SuspendedForever ==
    ( Len(sent) >= 2 /\ Len(delivered) < 2
      /\ exc \in {"none", "ConnectionClosed"} )
        => pc \in {"recv1", "recv2"}

\* C19, amended: a receive has no timeout.  At a receive with nothing
\* buffered main moves only by leaving on ConnectionClosed or on the user's
\* interrupt, and it gets past a receive only by consuming an envelope; so,
\* counting every envelope delivered since the connection opened, while main
\* has not left, fewer than two keep it in its first two receives with
\* get_task_status unsent, and get_task_status sent with fewer than four keep
\* it in its last two receives.
C19_NoReceiveTimeout ==
    /\ [][ /\ ( pc \in RecvPoints /\ nrecv = Len(delivered) /\ pc' # pc ) =>
                  /\ pc' = "exited"
                  /\ exc' \in {"ConnectionClosed", "KeyboardInterrupt"}
           /\ ( pc \in RecvPoints /\ pc' \notin {pc, "exited"} ) =>
                  nrecv' = nrecv + 1 ]_vars
    /\ []( pc # "exited" =>
              /\ ( Len(sent) >= 2 /\ Len(delivered) < 2 ) =>
                     ( pc \in {"recv1", "recv2"} /\ Len(sent) = 2 )
              /\ ( Len(sent) = 3 /\ Len(delivered) < 4 ) =>
                     pc \in {"recv3", "recv4"} )

C19_Witness ==
    /\ pc = "recv4"
    /\ open
    /\ Len(delivered) = 3
    /\ nrecv = 3
    /\ Len(sent) = 3

====
